---- MODULE Spec2Model ----
(***************************************************************************)
(* Model of the Socket.io chat server (src/server/server.js): the three    *)
(* process-wide registries users, rooms and typingUsers, the room          *)
(* subscriptions kept by the socket.io adapter, and one action per event   *)
(* handler registered in io.on("connection").  JavaScript objects are      *)
(* ordered maps: they are modelled as sequences of [k, v] entries in       *)
(* insertion order, so that Object.values and for..in see the same order   *)
(* as the code.                                                            *)
(***************************************************************************)
EXTENDS Integers, Sequences, FiniteSets, TLC

VARIABLES
    status,       \* per connection: "new", "open" (connected) or "closed"
    users,        \* server.js:26  ordered map socketId -> {username, id, room}
    rooms,        \* server.js:27  ordered map roomName -> sequence of messages
    typingUsers,  \* server.js:28  ordered map socketId -> username
    subs,         \* socket.io adapter: the rooms each socket is subscribed to
    clock,        \* the value Date.now() returned last
    out,          \* the emissions of the handler that ran last, in order
    last,         \* the event handled last
    created,      \* history: ids of all messages created, in creation order
    bcast,        \* history: per room, the receive_message payloads in emission order
    reactSeen,    \* history: per stored message, react_message events handled with its id
    budget,       \* client events still to be explored
    loadingOlder, \* socket.js:275  per client, the loadingOlder flag of the chat view
    requests,     \* per client, its load_older_messages events on their way to the server
    pages         \* history: per client, the pages its acknowledgment callbacks were given

\* the state of the clients
cvars == <<loadingOlder, requests, pages>>

vars == <<status, users, rooms, typingUsers, subs, clock, out, last,
          created, bcast, reactSeen, budget, loadingOlder, requests, pages>>

-----------------------------------------------------------------------------
(* Bounds of the exploration *)

MaxEvents == 4
MaxClock == 1
\* events of the behaviours that follow the requests for older messages
MaxPagingEvents == 3

(* Input domains *)

\* socket ids, named in the order in which the sockets connect
SocketIds == <<"c1", "c2", "c3">>
Conn == {SocketIds[i] : i \in 1..Len(SocketIds)}
Names == {"alice", "bob"}
NamedRooms == {"global", "tech"}
RoomNames == NamedRooms \cup Conn
Texts == {"hi"}
Files == {[fileName |-> "a.png", fileData |-> "data:a"]}
Reactions == {"like"}
\* the values Date.now() may return; it never goes back (guards now >= clock)
Clock == 0..MaxClock
MsgIds == Clock

Undefined == "<undefined>"
Null == "<null>"

-----------------------------------------------------------------------------
(* JavaScript helpers *)

Falsy(x) == x \in {Undefined, Null, ""}

\* a || b
OrElse(a, b) == IF Falsy(a) THEN b ELSE a

\* key in obj
MapHas(m, k) == \E i \in 1..Len(m) : m[i].k = k

\* obj[key]
MapGet(m, k) == m[CHOOSE i \in 1..Len(m) : m[i].k = k].v

\* obj[key] = value : an existing key keeps its position, a new key goes last
MapPut(m, k, v) ==
    IF MapHas(m, k)
    THEN [i \in 1..Len(m) |-> IF m[i].k = k THEN [k |-> k, v |-> v] ELSE m[i]]
    ELSE Append(m, [k |-> k, v |-> v])

\* a delete that removes nothing
MapDelNothing(m, k) == m

\* delete obj[key]
MapDel(m, k) == SelectSeq(m, LAMBDA e : e.k # k)

\* Object.values(obj)
ObjectValues(m) == [i \in 1..Len(m) |-> m[i].v]

MapKeys(m) == {m[i].k : i \in 1..Len(m)}

\* array.includes(x)
Includes(s, x) == \E i \in 1..Len(s) : s[i] = x

\* find with a test that every message passes
FindIdxAny(log, messageId) == IF Len(log) > 0 THEN 1 ELSE 0

\* array.find(m => m.id === messageId), as the index found (0: undefined)
FindIdx(log, messageId) ==
    IF \E i \in 1..Len(log) : log[i].id = messageId
    THEN CHOOSE i \in 1..Len(log) :
            /\ log[i].id = messageId
            /\ \A j \in 1..(i - 1) : log[j].id # messageId
    ELSE 0

-----------------------------------------------------------------------------
(* socket.io delivery *)

\* io.emit : every connected socket
All == {c \in Conn : status[c] = "open"}

\* io.to(room) : every connected socket subscribed to room
InRoom(st, sb, room) == {c \in Conn : st[c] = "open" /\ room \in sb[c]}

Emit(ev, target, to, payload) ==
    [ev |-> ev, target |-> target, to |-> to, payload |-> payload]

-----------------------------------------------------------------------------
\* server.js:31-43
createMessage(data, now) ==
    [id        |-> now,
     sender    |-> data.sender,
     senderId  |-> data.senderId,
     message   |-> OrElse(data.message, ""),
     timestamp |-> now,     \* new Date(): the same reading of the clock
     room      |-> OrElse(data.room, "global"),
     isPrivate |-> data.isPrivate,
     fileData  |-> OrElse(data.fileData, Null),
     fileName  |-> OrElse(data.fileName, Null),
     reactions |-> << >>,
     readers   |-> << >>]

Init ==
    /\ status = [c \in Conn |-> "new"]
    /\ users = << >>
    /\ rooms = << >>
    /\ typingUsers = << >>
    /\ subs = [c \in Conn |-> {}]
    /\ clock = 0
    /\ out = << >>
    /\ last = [ev |-> "none"]
    /\ created = << >>
    /\ bcast = [r \in RoomNames |-> << >>]
    /\ reactSeen = [r \in RoomNames |-> << >>]
    /\ budget = MaxEvents
    /\ loadingOlder = [c \in Conn |-> FALSE]
    /\ requests = [c \in Conn |-> << >>]
    /\ pages = [c \in Conn |-> << >>]

\* server.js:45-46 : a new socket; socket.io subscribes it to the room named by its id
Connect(c) ==
    /\ status[c] = "new"
    /\ \E i \in 1..Len(SocketIds) :
          /\ SocketIds[i] = c
          /\ \A j \in 1..(i - 1) : status[SocketIds[j]] # "new"
    /\ status' = [status EXCEPT ![c] = "open"]
    /\ subs' = [subs EXCEPT ![c] = {c}]
    /\ out' = << >>
    /\ last' = [ev |-> "connection", conn |-> c]
    /\ UNCHANGED <<users, rooms, typingUsers, clock, created, bcast, reactSeen, budget>>
    /\ UNCHANGED cvars

\* server.js:49-55
UserJoin(c, username) ==
    /\ status[c] = "open"
    /\ budget > 0
    /\ budget' = budget - 1
    /\ users' = MapPut(users, c, [username |-> username, id |-> c, room |-> "global"])
    /\ subs' = [subs EXCEPT ![c] = @ \cup {"global"}]
    /\ out' = << Emit("user_list", "*", All, ObjectValues(users')),
                 Emit("user_joined", "*", All, [username |-> username, id |-> c]) >>
    /\ last' = [ev |-> "user_join", conn |-> c, username |-> username]
    /\ UNCHANGED <<status, rooms, typingUsers, clock, created, bcast, reactSeen>>
    /\ UNCHANGED cvars

\* server.js:58-79
JoinRoom(c, roomName) ==
    /\ status[c] = "open"
    /\ budget > 0
    /\ budget' = budget - 1
    /\ last' = [ev |-> "join_room", conn |-> c, roomName |-> roomName]
    /\ IF ~MapHas(users, c)
       THEN /\ out' = << >>
            /\ UNCHANGED <<users, rooms, subs, reactSeen>>
       ELSE LET user == MapGet(users, c)
                left == IF Falsy(user.room) THEN subs[c] ELSE subs[c] \ {user.room}
            IN  /\ users' = MapPut(users, c, [user EXCEPT !.room = roomName])
                /\ subs' = [subs EXCEPT ![c] = left \cup {roomName}]
                /\ rooms' = IF MapHas(rooms, roomName) THEN rooms
                            ELSE MapPut(rooms, roomName, << >>)
                /\ out' = << Emit("room_messages", c, InRoom(status, subs', c),
                                  MapGet(rooms', roomName)),
                             Emit("room_users", roomName, InRoom(status, subs', roomName),
                                  SelectSeq(ObjectValues(users'),
                                            LAMBDA u : u.room = roomName)) >>
                /\ UNCHANGED reactSeen
    /\ UNCHANGED <<status, typingUsers, clock, created, bcast>>
    /\ UNCHANGED cvars

\* unshift in place of push
PushMessageFront(rms, room, msg) ==
    MapPut(rms, room, <<msg>> \o (IF MapHas(rms, room) THEN MapGet(rms, room) ELSE << >>))

\* rooms[room] = rooms[room] || []; rooms[room].push(msg)   (server.js:93-94, 128-129)
PushMessage(rms, room, msg) ==
    MapPut(rms, room, Append(IF MapHas(rms, room) THEN MapGet(rms, room) ELSE << >>, msg))

\* the part send_message and send_file share: store, then broadcast to the room
StoreAndBroadcast(c, user, msg) ==
    /\ rooms' = PushMessage(rooms, user.room, msg)
    /\ out' = << Emit("receive_message", user.room, InRoom(status, subs, user.room), msg) >>
    /\ created' = Append(created, msg.id)
    /\ bcast' = [bcast EXCEPT ![user.room] = Append(@, msg)]
    /\ reactSeen' = [reactSeen EXCEPT ![user.room] = Append(@, 0)]

\* server.js:82-97
SendMessage(c, message, now) ==
    /\ status[c] = "open"
    /\ now >= clock
    /\ budget > 0
    /\ budget' = budget - 1
    /\ last' = [ev |-> "send_message", conn |-> c, message |-> message]
    /\ IF ~MapHas(users, c)
       THEN /\ out' = << >>
            /\ UNCHANGED <<rooms, clock, created, bcast, reactSeen>>
       ELSE LET user == MapGet(users, c)
                msgData == createMessage([sender |-> user.username, senderId |-> c,
                                          message |-> message, room |-> user.room,
                                          isPrivate |-> FALSE, fileData |-> Undefined,
                                          fileName |-> Undefined], now)
            IN  /\ clock' = now
                /\ StoreAndBroadcast(c, user, msgData)
    /\ UNCHANGED <<status, users, typingUsers, subs>>
    /\ UNCHANGED cvars

\* a private_message that also stores the message in the sender's room log
PrivateMessageStored(c, to, message, now) ==
    /\ status[c] = "open"
    /\ now >= clock
    /\ budget > 0
    /\ budget' = budget - 1
    /\ last' = [ev |-> "private_message", conn |-> c, to |-> to, message |-> message]
    /\ IF ~MapHas(users, c)
       THEN /\ out' = << >>
            /\ UNCHANGED <<rooms, clock, created, reactSeen>>
       ELSE LET user == MapGet(users, c)
                msgData == createMessage([sender |-> user.username, senderId |-> c,
                                          message |-> message, room |-> Undefined,
                                          isPrivate |-> TRUE, fileData |-> Undefined,
                                          fileName |-> Undefined], now)
            IN  /\ out' = << Emit("private_message", to,
                                  InRoom(status, subs, to) \ {c}, msgData),
                             Emit("private_message", c, {c}, msgData) >>
                /\ rooms' = PushMessage(rooms, user.room, msgData)
                /\ reactSeen' = [reactSeen EXCEPT ![user.room] = Append(@, 0)]
                /\ created' = Append(created, msgData.id)
                /\ clock' = now
    /\ UNCHANGED <<status, users, typingUsers, subs, bcast>>
    /\ UNCHANGED cvars

\* server.js:100-113
PrivateMessage(c, to, message, now) ==
    /\ status[c] = "open"
    /\ now >= clock
    /\ budget > 0
    /\ budget' = budget - 1
    /\ last' = [ev |-> "private_message", conn |-> c, to |-> to, message |-> message]
    /\ IF ~MapHas(users, c)
       THEN /\ out' = << >>
            /\ UNCHANGED <<clock, created>>
       ELSE LET user == MapGet(users, c)
                msgData == createMessage([sender |-> user.username, senderId |-> c,
                                          message |-> message, room |-> Undefined,
                                          isPrivate |-> TRUE, fileData |-> Undefined,
                                          fileName |-> Undefined], now)
            IN  /\ out' = << Emit("private_message", to,
                                  InRoom(status, subs, to) \ {c}, msgData),
                             Emit("private_message", c, {c}, msgData) >>
                /\ created' = Append(created, msgData.id)
                /\ clock' = now
    /\ UNCHANGED <<status, users, rooms, typingUsers, subs, bcast, reactSeen>>
    /\ UNCHANGED cvars

\* server.js:116-132
SendFile(c, file, now) ==
    /\ status[c] = "open"
    /\ now >= clock
    /\ budget > 0
    /\ budget' = budget - 1
    /\ last' = [ev |-> "send_file", conn |-> c, file |-> file]
    /\ IF ~MapHas(users, c)
       THEN /\ out' = << >>
            /\ UNCHANGED <<rooms, clock, created, bcast, reactSeen>>
       ELSE LET user == MapGet(users, c)
                fileMsg == createMessage([sender |-> user.username, senderId |-> c,
                                          message |-> Undefined, room |-> user.room,
                                          isPrivate |-> FALSE, fileData |-> file.fileData,
                                          fileName |-> file.fileName], now)
            IN  /\ clock' = now
                /\ StoreAndBroadcast(c, user, fileMsg)
    /\ UNCHANGED <<status, users, typingUsers, subs>>
    /\ UNCHANGED cvars

\* server.js:135-142
Typing(c, isTyping) ==
    /\ status[c] = "open"
    /\ budget > 0
    /\ budget' = budget - 1
    /\ last' = [ev |-> "typing", conn |-> c, isTyping |-> isTyping]
    /\ IF MapHas(users, c)
       THEN /\ typingUsers' = IF isTyping
                              THEN MapPut(typingUsers, c, MapGet(users, c).username)
                              ELSE MapDel(typingUsers, c)
            /\ out' = << Emit("typing_users", "*", All, ObjectValues(typingUsers')) >>
       ELSE /\ out' = << >>
            /\ UNCHANGED typingUsers
    /\ UNCHANGED <<status, users, rooms, subs, clock, created, bcast, reactSeen>>
    /\ UNCHANGED cvars

\* history: every stored message whose id is messageId has seen one more react_message
CountReact(seen, rms, messageId) ==
    [r \in DOMAIN seen |->
        IF MapHas(rms, r)
        THEN [i \in 1..Len(seen[r]) |->
                IF MapGet(rms, r)[i].id = messageId THEN seen[r][i] + 1 ELSE seen[r][i]]
        ELSE seen[r]]

\* for (const room in rooms) { find; if (msg) {...; break} } : index of the room that
\* is hit, 0 when the loop ends without a hit   (server.js:146-153)
FirstRoomWith(rms, messageId) ==
    IF \E j \in 1..Len(rms) : FindIdx(rms[j].v, messageId) # 0
    THEN CHOOSE j \in 1..Len(rms) :
            /\ FindIdx(rms[j].v, messageId) # 0
            /\ \A h \in 1..(j - 1) : FindIdx(rms[h].v, messageId) = 0
    ELSE 0

\* the reaction put in front of the list instead of at its end
PushReactionFront(reactions, r) == << r >> \o reactions

\* msg.reactions.push({ userId, reaction })   (server.js:149)
PushReaction(reactions, r) == Append(reactions, r)

\* server.js:145-154
ReactMessage(c, messageId, reaction) ==
    /\ status[c] = "open"
    /\ budget > 0
    /\ budget' = budget - 1
    /\ last' = [ev |-> "react_message", conn |-> c, messageId |-> messageId,
                reaction |-> reaction]
    /\ reactSeen' = CountReact(reactSeen, rooms, messageId)
    /\ LET j == FirstRoomWith(rooms, messageId)
       IN  IF j = 0
           THEN /\ out' = << >>
                /\ UNCHANGED rooms
           ELSE LET room == rooms[j].k
                    i == FindIdx(rooms[j].v, messageId)
                IN  /\ rooms' = [rooms EXCEPT ![j].v[i].reactions =
                                    PushReaction(@, [userId |-> c, reaction |-> reaction])]
                    /\ out' = << Emit("message_reaction", room, InRoom(status, subs, room),
                                      [messageId |-> messageId, reaction |-> reaction]) >>
    /\ UNCHANGED <<status, users, typingUsers, subs, clock, created, bcast>>
    /\ UNCHANGED cvars

\* the test without !msg.readers.includes(user.username)
ReadHitsNoCheck(rms, j, messageId, username) ==
    FindIdx(rms[j].v, messageId) # 0

\* the test of server.js:163 for the room at position j
ReadHits(rms, j, messageId, username) ==
    LET i == FindIdx(rms[j].v, messageId)
    IN  i # 0 /\ ~Includes(rms[j].v[i].readers, username)

\* server.js:157-171
ReadMessage(c, messageId) ==
    /\ status[c] = "open"
    /\ budget > 0
    /\ budget' = budget - 1
    /\ last' = [ev |-> "read_message", conn |-> c, messageId |-> messageId]
    /\ IF ~MapHas(users, c)
       THEN /\ out' = << >>
            /\ UNCHANGED rooms
       ELSE LET user == MapGet(users, c)
                newLog(j) ==
                    IF ReadHits(rooms, j, messageId, user.username)
                    THEN [rooms[j].v EXCEPT ![FindIdx(rooms[j].v, messageId)].readers =
                              Append(@, user.username)]
                    ELSE rooms[j].v
                emits == [j \in 1..Len(rooms) |->
                            IF ReadHits(rooms, j, messageId, user.username)
                            THEN Emit("message_read", rooms[j].k,
                                      InRoom(status, subs, rooms[j].k),
                                      [messageId |-> messageId,
                                       readers |-> newLog(j)[FindIdx(rooms[j].v, messageId)].readers])
                            ELSE Emit("skip", rooms[j].k, {}, << >>)]
            IN  /\ rooms' = [j \in 1..Len(rooms) |-> [k |-> rooms[j].k, v |-> newLog(j)]]
                /\ out' = SelectSeq(emits, LAMBDA e : e.ev # "skip")
    /\ UNCHANGED <<status, users, typingUsers, subs, clock, created, bcast, reactSeen>>
    /\ UNCHANGED cvars

\* server.js:174-184 ; socket.io has removed the socket from every room before
\* the handler runs
Disconnect(c) ==
    /\ status[c] = "open"
    /\ status' = [status EXCEPT ![c] = "closed"]
    /\ subs' = [subs EXCEPT ![c] = {}]
    /\ last' = [ev |-> "disconnect", conn |-> c, wasTyping |-> MapHas(typingUsers, c)]
    /\ IF MapHas(users, c)
       THEN LET user == MapGet(users, c)
                rest == All \ {c}
            IN  /\ users' = MapDel(users, c)
                /\ typingUsers' = MapDel(typingUsers, c)
                /\ out' = << Emit("user_left", "*", rest,
                                  [username |-> user.username, id |-> c]),
                             Emit("user_list", "*", rest, ObjectValues(users')),
                             Emit("typing_users", "*", rest, ObjectValues(typingUsers')) >>
       ELSE /\ out' = << >>
            /\ UNCHANGED <<users, typingUsers>>
    /\ UNCHANGED <<rooms, clock, created, bcast, reactSeen, budget>>
    /\ UNCHANGED cvars

Next ==
    \/ \E c \in Conn : Connect(c)
    \/ \E c \in Conn, n \in Names : UserJoin(c, n)
    \/ \E c \in Conn, r \in RoomNames : JoinRoom(c, r)
    \/ \E c \in Conn, m \in Texts, now \in Clock : SendMessage(c, m, now)
    \/ \E c \in Conn, to \in Conn, m \in Texts, now \in Clock : PrivateMessage(c, to, m, now)
    \/ \E c \in Conn, f \in Files, now \in Clock : SendFile(c, f, now)
    \/ \E c \in Conn, t \in BOOLEAN : Typing(c, t)
    \/ \E c \in Conn, id \in MsgIds, r \in Reactions : ReactMessage(c, id, r)
    \/ \E c \in Conn, id \in MsgIds : ReadMessage(c, id)
    \/ \E c \in Conn : Disconnect(c)

Spec == Init /\ [][Next]_vars

-----------------------------------------------------------------------------
(* The clients' requests for older messages (src/client/src/socket/socket.js) *)

\* everything the server holds
svars == <<status, users, rooms, typingUsers, subs, clock, created, bcast, reactSeen>>

\* socket.js:322-339 : the chat view is scrolled to the top; the view asks for
\* older messages of the selected room and waits for the acknowledgment
handleScroll(c, selectedRoom) ==
    /\ status[c] = "open"
    /\ ~loadingOlder[c]
    /\ budget > 0
    /\ budget' = budget - 1
    /\ loadingOlder' = [loadingOlder EXCEPT ![c] = TRUE]
    /\ requests' = [requests EXCEPT ![c] =
                       Append(@, [conn |-> c, from |-> "handleScroll",
                                  room |-> selectedRoom, oldestMessageId |-> Undefined])]
    /\ UNCHANGED <<svars, out, last, pages>>

\* socket.js:117-128 : the hook's loadOlderMessages, called with a cursor
loadOlderMessages(c, room, oldestMessageId) ==
    /\ status[c] = "open"
    /\ budget > 0
    /\ budget' = budget - 1
    /\ requests' = [requests EXCEPT ![c] =
                       Append(@, [conn |-> c, from |-> "loadOlderMessages",
                                  room |-> room, oldestMessageId |-> oldestMessageId])]
    /\ UNCHANGED <<svars, out, last, loadingOlder, pages>>

\* server.js:45-185 : a load_older_messages event reaches the server, which has
\* registered no listener for it: the event is dropped, its acknowledgment
\* callback is never invoked
LoadOlderArrives(c) ==
    /\ status[c] = "open"
    /\ requests[c] # << >>
    /\ requests' = [requests EXCEPT ![c] = Tail(@)]
    /\ last' = [ev |-> "load_older_messages", conn |-> c, request |-> Head(requests[c])]
    /\ out' = << >>
    /\ UNCHANGED <<svars, budget, loadingOlder, pages>>

NextPaging ==
    \/ \E c \in Conn : Connect(c)
    \/ \E c \in Conn, n \in Names : UserJoin(c, n)
    \/ \E c \in Conn, m \in Texts, now \in Clock : SendMessage(c, m, now)
    \/ \E c \in Conn, r \in NamedRooms : handleScroll(c, r)
    \/ \E c \in Conn, r \in NamedRooms, id \in MsgIds : loadOlderMessages(c, r, id)
    \/ \E c \in Conn : LoadOlderArrives(c)
    \/ \E c \in Conn : Disconnect(c)

InitPaging ==
    /\ status = [c \in Conn |-> "new"]
    /\ users = << >>
    /\ rooms = << >>
    /\ typingUsers = << >>
    /\ subs = [c \in Conn |-> {}]
    /\ clock = 0
    /\ out = << >>
    /\ last = [ev |-> "none"]
    /\ created = << >>
    /\ bcast = [r \in RoomNames |-> << >>]
    /\ reactSeen = [r \in RoomNames |-> << >>]
    /\ budget = MaxPagingEvents
    /\ loadingOlder = [c \in Conn |-> FALSE]
    /\ requests = [c \in Conn |-> << >>]
    /\ pages = [c \in Conn |-> << >>]

\* the transport delivers every event a connected client has emitted
SpecPaging ==
    InitPaging /\ [][NextPaging]_vars /\ \A c \in Conn : WF_vars(LoadOlderArrives(c))
-----------------------------------------------------------------------------
(* Two rooms and the empty room name: the runs in which a session changes room
   between two sends *)

MaxRoomEvents == 5

\* the room names a client passes to join_room here: a falsy one and a plain one
SwitchRooms == {"", "tech"}

InitRooms ==
    /\ status = [c \in Conn |-> "new"]
    /\ users = << >>
    /\ rooms = << >>
    /\ typingUsers = << >>
    /\ subs = [c \in Conn |-> {}]
    /\ clock = 0
    /\ out = << >>
    /\ last = [ev |-> "none"]
    /\ created = << >>
    /\ bcast = [r \in RoomNames \cup SwitchRooms |-> << >>]
    /\ reactSeen = [r \in RoomNames \cup SwitchRooms |-> << >>]
    /\ budget = MaxRoomEvents
    /\ loadingOlder = [c \in Conn |-> FALSE]
    /\ requests = [c \in Conn |-> << >>]
    /\ pages = [c \in Conn |-> << >>]

NextRooms ==
    \/ \E c \in Conn : Connect(c)
    \/ \E c \in Conn, n \in Names : UserJoin(c, n)
    \/ \E c \in Conn, r \in SwitchRooms : JoinRoom(c, r)
    \/ \E c \in Conn, m \in Texts, now \in Clock : SendMessage(c, m, now)
    \/ \E c \in Conn, f \in Files, now \in Clock : SendFile(c, f, now)
    \/ \E c \in Conn, id \in MsgIds, r \in Reactions : ReactMessage(c, id, r)
    \/ \E c \in Conn, id \in MsgIds : ReadMessage(c, id)

SpecRooms == InitRooms /\ [][NextRooms]_vars
-----------------------------------------------------------------------------
(* Vocabulary of the properties *)

Registered == MapKeys(users)

\* the sessions of users whose room field is r
SessionsIn(r) == {c \in Registered : MapGet(users, c).room = r}

\* the sockets subscribed to r
Subscribed(r) == {c \in Conn : r \in subs[c]}

\* an event was handled last, and its handler emitted something
Handled(ev) == last.ev = ev /\ out # << >>

Emissions(ev) == {i \in 1..Len(out) : out[i].ev = ev}

\* every connection some emission of the last handler was delivered to
Receivers == UNION {out[i].to : i \in 1..Len(out)}

\* all stored messages, as <<position of the room, position in its log>>
Stored == {p \in (1..Len(rooms)) \X (1..MaxEvents + 1) : p[2] <= Len(rooms[p[1]].v)}

\* a message without its two mutable collections
Core(m) == [m EXCEPT !.reactions = << >>, !.readers = << >>]

CoreLog(log) == [i \in 1..Len(log) |-> Core(log[i])]

LogOf(r) == IF MapHas(rooms, r) THEN MapGet(rooms, r) ELSE << >>

IsPrefix(s, t) == Len(s) <= Len(t) /\ \A i \in 1..Len(s) : s[i] = t[i]

-----------------------------------------------------------------------------
\* C1: for every named room r, the sockets subscribed to r are exactly the
\* sessions of users whose room field is r (so no session is subscribed to two
\* named rooms), after any sequence of user_join, join_room and disconnect.
C1_MembershipConsistent ==
    \A r \in NamedRooms : Subscribed(r) = SessionsIn(r)

\* C2: a private_message from a registered session A to the id of another
\* connected socket B is delivered to exactly A and B.
C2_PrivateExactlyTwo ==
    (Handled("private_message") /\ last.to # last.conn /\ status[last.to] = "open")
        => Receivers = {last.conn, last.to}

\* C3: a receive_message for a message sent to room r is delivered to exactly
\* the sessions whose current room is r at the time of the send.
C3_RoomAudience ==
    \A i \in Emissions("receive_message") : out[i].to = SessionsIn(out[i].target)

\* C4: message ids are pairwise different and non-decreasing in creation order,
\* that is, strictly increasing.
C4_IdsUnique ==
    \A i, j \in 1..Len(created) : i < j => created[i] < created[j]

\* C5: a disconnected connection is a key of neither users nor typingUsers and
\* is subscribed to no room, and the user_list and typing_users lists its
\* disconnect broadcast do not contain it (nor is anything delivered to it).
C5_DisconnectRetracts ==
    /\ \A c \in Conn : status[c] = "closed" =>
          /\ ~MapHas(users, c)
          /\ ~MapHas(typingUsers, c)
          /\ subs[c] = {}
    /\ Handled("disconnect") =>
          /\ Emissions("user_list") # {} /\ Emissions("typing_users") # {}
          /\ \A i \in Emissions("user_list") :
                /\ out[i].payload = ObjectValues(users)
                /\ \A n \in 1..Len(out[i].payload) : out[i].payload[n].id # last.conn
          /\ \A i \in Emissions("typing_users") :
                out[i].payload = ObjectValues(typingUsers)
          /\ last.conn \notin Receivers

\* a registered session that was marked typing has disconnected while another
\* session is still registered
C5_Witness ==
    /\ Handled("disconnect")
    /\ last.wasTyping
    /\ users # << >>

\* C6: no message with isPrivate = TRUE is an element of a room log, and a
\* private_message leaves rooms unchanged.
C6_NoPrivateStored == \A p \in Stored : ~rooms[p[1]].v[p[2]].isPrivate

C6_PrivateKeepsRooms == (last'.ev = "private_message") => rooms' = rooms

C6_PrivateNeverStored == []C6_NoPrivateStored /\ [][C6_PrivateKeepsRooms]_vars

\* a private message was created and delivered while a room log holds a message
C6_Witness ==
    /\ Handled("private_message")
    /\ out[1].payload.isPrivate
    /\ Stored # {}

\* C7: an event other than user_join from a connection with no entry in users
\* leaves users, typingUsers and rooms unchanged and emits nothing.
C7_UnregisteredStep ==
    (/\ last'.ev \in {"join_room", "send_message", "private_message", "send_file",
                      "typing", "react_message", "read_message", "disconnect"}
     /\ ~MapHas(users, last'.conn))
        => (users' = users /\ typingUsers' = typingUsers /\ rooms' = rooms /\ out' = << >>)

C7_UnregisteredNoOp == [][C7_UnregisteredStep]_vars

\* C8: the number of reactions of every stored message equals the number of
\* react_message events handled with its id since it was appended.
C8_ReactionCount ==
    \A p \in Stored :
        Len(rooms[p[1]].v[p[2]].reactions) = reactSeen[rooms[p[1]].k][p[2]]

\* C9: no username occurs twice in a readers list, and a read_message that
\* repeats the previous one (same messageId, session with the same username)
\* leaves every readers list unchanged and emits no message_read.
C9_NoDupReaders ==
    \A p \in Stored :
        LET readers == rooms[p[1]].v[p[2]].readers
        IN  \A a, b \in 1..Len(readers) : a # b => readers[a] # readers[b]

C9_SecondRead ==
    (/\ last.ev = "read_message" /\ last'.ev = "read_message"
     /\ last'.messageId = last.messageId
     /\ MapHas(users, last.conn) /\ MapHas(users, last'.conn)
     /\ MapGet(users, last'.conn).username = MapGet(users, last.conn).username)
        => (rooms' = rooms /\ out' = << >>)

C9_ReadIdempotent == []C9_NoDupReaders /\ [][C9_SecondRead]_vars

\* a registered session has sent read_message for a stored message that its
\* username had already read, and nothing was emitted
C9_Witness ==
    /\ last.ev = "read_message"
    /\ MapHas(users, last.conn)
    /\ out = << >>
    /\ \E p \in Stored :
          /\ rooms[p[1]].v[p[2]].id = last.messageId
          /\ Includes(rooms[p[1]].v[p[2]].readers, MapGet(users, last.conn).username)

\* C10: for every room the log order is the order of its receive_message
\* broadcasts and the order of the list a room_messages snapshot carries, and no
\* event reorders or removes an element of a room log.
C10_BroadcastOrder == \A r \in RoomNames : bcast[r] = CoreLog(LogOf(r))

C10_Snapshot ==
    Handled("join_room") =>
        out[1].ev = "room_messages" /\ CoreLog(out[1].payload) = bcast[last.roomName]

C10_LogStable ==
    \A j \in 1..Len(rooms) :
        /\ j <= Len(rooms')
        /\ rooms'[j].k = rooms[j].k
        /\ IsPrefix(CoreLog(rooms[j].v), CoreLog(rooms'[j].v))

C10_LogOrder == []C10_BroadcastOrder /\ []C10_Snapshot /\ [][C10_LogStable]_vars

\* a session joins a room whose log holds two different messages and gets both
C10_Witness ==
    /\ Handled("join_room")
    /\ Len(out[1].payload) >= 2
    /\ Core(out[1].payload[1]) # Core(out[1].payload[2])

\* C11: once a message is in a room log, no later event changes its id, room,
\* isPrivate, timestamp, sender, message or file fields, and its reactions and
\* readers only grow by appending at the end.
C11_GrowOnly ==
    \A p \in Stored :
        /\ p[1] <= Len(rooms')
        /\ p[2] <= Len(rooms'[p[1]].v)
        /\ LET m == rooms[p[1]].v[p[2]]
               n == rooms'[p[1]].v[p[2]]
           IN  /\ Core(n) = Core(m)
               /\ IsPrefix(m.reactions, n.reactions)
               /\ IsPrefix(m.readers, n.readers)

C11_MessagesFrozen == [][C11_GrowOnly]_vars

\* a stored message that has been reacted to is then read
C11_Witness ==
    /\ Handled("read_message")
    /\ \E p \in Stored :
          /\ rooms[p[1]].v[p[2]].id = last.messageId
          /\ rooms[p[1]].v[p[2]].reactions # << >>
          /\ rooms[p[1]].v[p[2]].readers # << >>

\* C12: the display name of a session is fixed by its first user_join: while the
\* session stays registered no event changes users[id].username.
C12_NameStep ==
    \A c \in Registered :
        MapHas(users', c) => MapGet(users', c).username = MapGet(users, c).username

C12_NameImmutable == [][C12_NameStep]_vars

\* C13: every load_older_messages request of a client is eventually answered:
\* while the connection lives, a loadingOlder flag that is set eventually returns
\* to false.
C13_Answered ==
    \A c \in Conn :
        (status[c] = "open" /\ loadingOlder[c]) ~> (status[c] # "open" \/ ~loadingOlder[c])

\* C14: join_room(r) from a registered session leaves rooms[r] existing, and a
\* room_messages event carrying the complete log of r is delivered to the
\* requesting connection and to no other connection.
C14_JoinRoomSnapshot ==
    (last.ev = "join_room" /\ MapHas(users, last.conn)) =>
        /\ MapHas(rooms, last.roomName)
        /\ Emissions("room_messages") # {}
        /\ \A i \in Emissions("room_messages") :
              /\ out[i].payload = LogOf(last.roomName)
              /\ out[i].to = {last.conn}

\* C15: a react_message or read_message whose messageId is the id of no stored
\* message is dropped: users, rooms and typingUsers are unchanged and nothing is
\* emitted.
C15_UnknownIdStep ==
    (/\ last'.ev \in {"react_message", "read_message"}
     /\ \A p \in Stored : rooms[p[1]].v[p[2]].id # last'.messageId)
        => (users' = users /\ rooms' = rooms /\ typingUsers' = typingUsers /\ out' = << >>)

C15_UnknownIdDropped == [][C15_UnknownIdStep]_vars

\* a registered session reacted to or read an id that no stored message has,
\* while a room log holds a message
C15_Witness ==
    /\ last.ev \in {"react_message", "read_message"}
    /\ MapHas(users, last.conn)
    /\ Stored # {}
    /\ \A p \in Stored : rooms[p[1]].v[p[2]].id # last.messageId
    /\ out = << >>

\* C16: a react_message whose messageId is the id of a private message notifies
\* both participants of the private conversation and nobody else.
C16_PrivateReactionStep ==
    (/\ Handled("private_message")
     /\ last.to # last.conn
     /\ status[last.to] = "open"
     /\ last'.ev = "react_message"
     /\ last'.messageId = out[1].payload.id
     /\ \A p \in Stored : rooms[p[1]].v[p[2]].id # last'.messageId)
        => /\ out' # << >>
           /\ \A i \in 1..Len(out') :
                 out'[i].ev = "message_reaction" /\ out'[i].to = {last.conn, last.to}

C16_PrivateReaction == [][C16_PrivateReactionStep]_vars

\* C17: every message created by a private_message event has room = null, and
\* every message with a non-null room has isPrivate = false.
C17_PrivateRoomNull ==
    /\ Handled("private_message") =>
          \A i \in Emissions("private_message") : out[i].payload.room = Null
    /\ \A i \in Emissions("private_message") \cup Emissions("receive_message") :
          out[i].payload.room # Null => ~out[i].payload.isPrivate
    /\ \A p \in Stored :
          rooms[p[1]].v[p[2]].room # Null => ~rooms[p[1]].v[p[2]].isPrivate

\* C18: the typing_users list emitted after a typing event reaches, among the
\* sessions, only those whose current room is the typing session's current room.
C18_TypingAudience ==
    Handled("typing") =>
        \A i \in Emissions("typing_users") :
            out[i].to \cap Registered \subseteq SessionsIn(MapGet(users, last.conn).room)

\* the messages of a log with an id below the cursor
OlderThan(log, cursor) == SelectSeq(log, LAMBDA m : m.id < cursor)

\* the last n elements of a sequence
LastN(s, n) == SubSeq(s, IF Len(s) > n THEN Len(s) - n + 1 ELSE 1, Len(s))

\* a page of at most n messages before the cursor
getPageBefore(log, cursor, n) == LastN(OlderThan(log, cursor), n)

\* C19: a fetch of older messages of a room returns a page of at most pageSize
\* messages with ids below the cursor, in log order and adjacent to the cursor,
\* so that chained fetches reconstruct the room log without duplicate or gap:
\* once the server has received a request whose cursor has messages before it,
\* the client holds that page.
C19_PageReturned ==
    (/\ last.ev = "load_older_messages"
     /\ last.request.from = "loadOlderMessages"
     /\ OlderThan(LogOf(last.request.room), last.request.oldestMessageId) # << >>) =>
        LET q == last.request
        IN  /\ pages[q.conn] # << >>
            /\ \E n \in 1..(MaxPagingEvents + 1) :
                  pages[q.conn][Len(pages[q.conn])] =
                      getPageBefore(LogOf(q.room), q.oldestMessageId, n)

\* C20: each key of typingUsers is a key of users, and typingUsers[id] equals
\* users[id].username.
C20_TypingNamesCurrent ==
    \A c \in MapKeys(typingUsers) :
        MapHas(users, c) /\ MapGet(typingUsers, c) = MapGet(users, c).username

\* the ids of the sessions a room_users payload lists
ListedIds(payload) == {payload[i].id : i \in 1..Len(payload)}

\* C21: whenever the set of sessions whose current room is r changes, a
\* room_users event for r carrying exactly the sessions now in r is emitted to
\* the sockets of r.
C21_RoomUsersStep ==
    \A r \in NamedRooms :
        SessionsIn(r)' # SessionsIn(r) =>
            \E i \in 1..Len(out') :
                /\ out'[i].ev = "room_users"
                /\ out'[i].target = r
                /\ ListedIds(out'[i].payload) = SessionsIn(r)'

C21_RoomUsersFollow == [][C21_RoomUsersStep]_vars

\* the stored messages that a step changes
Touched == {p \in Stored : rooms'[p[1]].v[p[2]] # rooms[p[1]].v[p[2]]}

\* C22: each read_message event adds the reader's name to at most one stored
\* message and emits at most one message_read, and each react_message event
\* appends to at most one stored message and emits at most one message_reaction.
C22_SingleTargetStep ==
    last'.ev \in {"read_message", "react_message"} =>
        /\ Cardinality(Touched) <= 1
        /\ Len(out') <= 1

C22_SingleTarget == [][C22_SingleTargetStep]_vars

\* the log of room r in the room directory rms
LogIn(rms, r) == IF MapHas(rms, r) THEN MapGet(rms, r) ELSE << >>

\* C23: a send_message or send_file from a registered session appends exactly
\* one message to the log of the sender's current room, broadcasts that message
\* to that room, leaves every other log, users and typingUsers unchanged, and
\* the stored message's room field is the key of the log that holds it.
C23_SendStep ==
    (last'.ev \in {"send_message", "send_file"} /\ MapHas(users, last'.conn)) =>
        LET r == MapGet(users, last'.conn).room
            old == LogIn(rooms, r)
            new == LogIn(rooms', r)
        IN  /\ Len(new) = Len(old) + 1
            /\ SubSeq(new, 1, Len(old)) = old
            /\ Len(out') = 1
            /\ out'[1].ev = "receive_message"
            /\ out'[1].target = r
            /\ out'[1].payload = new[Len(new)]
            /\ \A k \in MapKeys(rooms) \ {r} : LogIn(rooms', k) = LogIn(rooms, k)
            /\ MapKeys(rooms') \subseteq MapKeys(rooms) \cup {r}
            /\ users' = users
            /\ typingUsers' = typingUsers
            /\ new[Len(new)].room = r

C23_SendToCurrentRoom == [][C23_SendStep]_vars
====
